---- MODULE Spec2Model ----
(***************************************************************************)
(* Model of the complaint-tracking service of src/main.go: two in-memory   *)
(* maps (users, complaints), one global sync.Mutex, and seven HTTP         *)
(* handlers that each take the mutex, decode the request body, validate,   *)
(* read or mutate the maps, write the response and release the mutex.      *)
(***************************************************************************)
EXTENDS Integers, Sequences, FiniteSets, TLC

VARIABLES
    users,       \* var users map[string]User            (main.go:30)
    complaints,  \* var complaints map[string]Complaint  (main.go:32)
    mu,          \* var mu sync.Mutex, TRUE when locked   (main.go:28)
    pc,          \* per request goroutine: position in its handler
    op,          \* per request goroutine: the handler the mux dispatched
    req,         \* per request goroutine: the body the handler decoded
    resp,        \* per request goroutine: the response it has written
    local,       \* newComplaint and user of each submitComplaintHandler
                 \* that is between its two map writes
    submitLog    \* history: complaints of the submits that answered 201

vars == <<users, complaints, mu, pc, op, req, resp, local, submitLog>>

----------------------------------------------------------------------------
(* Bounds of the model and the input alphabets.                            *)

\* submitComplaint requests are admitted while fewer than this many
\* complaints are stored or being stored.
MaxComplaints == 2

Procs == {"g1", "g2"}

SecretCodes == {"c1", "admin"}
Names == {"n1", "n2"}
Titles == {"t1"}

Ops == {"login", "register", "submitComplaint", "getAllComplaintsForUser",
        "getAllComplaintsForAdmin", "viewComplaint", "resolveComplaint"}

Readers == {"login", "getAllComplaintsForUser", "getAllComplaintsForAdmin",
            "viewComplaint"}

----------------------------------------------------------------------------
(* HTTP status codes used by the handlers.                                 *)

StatusOK == 200
StatusCreated == 201
StatusNoContent == 204
StatusBadRequest == 400
StatusUnauthorized == 401
StatusNotFound == 404

----------------------------------------------------------------------------
(* Go values.                                                              *)

\* Zero values of the two struct types (what a map read of a missing key
\* yields, and what Decode starts from).
ZeroComplaint ==
    [ID |-> "", Title |-> "", Summary |-> "", Severity |-> 0,
     Resolved |-> FALSE, SecretCode |-> ""]

ZeroUser ==
    [ID |-> "", SecretCode |-> "", Name |-> "", Email |-> "",
     Complaints |-> <<>>]

\* m[k] = v on a Go map.
MapPut(m, k, v) == [x \in (DOMAIN m) \cup {k} |-> IF x = k THEN v ELSE m[x]]

\* v, ok := m[k] on the users map.
UserExists(us, code) == code \in DOMAIN us
UserAt(us, code) == IF code \in DOMAIN us THEN us[code] ELSE ZeroUser

\* v, ok := m[k] on the complaints map.
ComplaintExists(cs, id) == id \in DOMAIN cs
ComplaintAt(cs, id) == IF id \in DOMAIN cs THEN cs[id] ELSE ZeroComplaint

\* fmt.Sprintf("%d", n) for n >= 0: the decimal digits of n.
Digit(d) == <<"0", "1", "2", "3", "4", "5", "6", "7", "8", "9">>[d + 1]

RECURSIVE Itoa(_)
Itoa(n) == IF n < 10 THEN Digit(n) ELSE Itoa(n \div 10) \o Digit(n % 10)

\* The +1 left out: the number of complaints stored so far.
generateUniqueIDFromLen(cs) == Itoa(Cardinality(DOMAIN cs))

\* generateUniqueID: len(complaints)+1 as a decimal string.
generateUniqueID(cs) == Itoa(Cardinality(DOMAIN cs) + 1)

----------------------------------------------------------------------------
(* Request bodies and encoding/json.                                       *)
(*                                                                         *)
(* A body is the sequence of chunks the transport hands to successive      *)
(* Read calls; a chunk is the sequence of JSON values it holds.  A JSON    *)
(* object is a record of its members; Malformed stands for any value       *)
(* Decode rejects (bad syntax, a member of the wrong type).                *)

Malformed == [malformed |-> TRUE]

IsObject(v) == "malformed" \notin DOMAIN v

\* A struct field after Decode: the member's value, or the zero value
\* when the object has no such member.
Field(o, k, zero) == IF k \in DOMAIN o THEN o[k] ELSE zero

\* json.NewDecoder(r.Body).Decode(&v) on what is left of the body: a new
\* decoder reads the next chunk into its own buffer and decodes the first
\* value in it; whatever else the chunk held stays in the buffer of the
\* decoder, which is dropped.  No chunk left: io.EOF.
Decode(stream) ==
    IF stream = <<>>
    THEN [err |-> TRUE, msg |-> "EOF", val |-> Malformed, rest |-> <<>>]
    ELSE IF ~IsObject(Head(stream)[1])
    THEN [err |-> TRUE, msg |-> "invalid", val |-> Malformed,
          rest |-> Tail(stream)]
    ELSE [err |-> FALSE, msg |-> "", val |-> Head(stream)[1],
          rest |-> Tail(stream)]

\* struct { SecretCode string `json:"secretCode"` }
DecodeCredentials(o) == [SecretCode |-> Field(o, "secretCode", "")]

\* struct { ID string `json:"id"` }
DecodeID(o) == [ID |-> Field(o, "id", "")]

\* type User
DecodeUser(o) ==
    [ID |-> Field(o, "id", ""),
     SecretCode |-> Field(o, "secretCode", ""),
     Name |-> Field(o, "name", ""),
     Email |-> Field(o, "email", ""),
     Complaints |-> Field(o, "complaints", <<>>)]

\* type Complaint (SecretCode has no tag: its member is "SecretCode")
DecodeComplaint(o) ==
    [ID |-> Field(o, "id", ""),
     Title |-> Field(o, "title", ""),
     Summary |-> Field(o, "summary", ""),
     Severity |-> Field(o, "severity", 0),
     Resolved |-> Field(o, "resolved", FALSE),
     SecretCode |-> Field(o, "SecretCode", "")]

----------------------------------------------------------------------------
(* Responses.                                                              *)

NoBody == [empty |-> TRUE]

NoResponse == [status |-> 0, body |-> NoBody]

\* writeError
writeError(errMsg, statusCode) ==
    [status |-> statusCode, body |-> [error |-> errMsg]]

\* json.NewEncoder(w).Encode(v) with no earlier WriteHeader: 200 and v.
Encode(v) == [status |-> StatusOK, body |-> v]

\* w.WriteHeader(code) and nothing written.
WriteHeader(statusCode) == [status |-> statusCode, body |-> NoBody]

IsError(r) == r.status >= 400

----------------------------------------------------------------------------
(* The handlers, from the locked mutex to the written response.  Each is a *)
(* function of the maps and the body; it yields the response and, for the  *)
(* three writing handlers, the maps as the handler leaves them.            *)

\* loginHandler, lines 62-77
loginHandler(us, body) ==
    LET d == Decode(body)
        credentials == DecodeCredentials(d.val)
    IN  IF d.err THEN writeError(d.msg, StatusBadRequest)
        ELSE IF ~UserExists(us, credentials.SecretCode)
        THEN writeError("User not found", StatusNotFound)
        ELSE Encode(UserAt(us, credentials.SecretCode))

\* The list reset of line 98 left out: the complaints sent are kept.
NewUserRecordKeepsList(newUser, cs) ==
    [newUser EXCEPT !.ID = generateUniqueID(cs)]

\* registerHandler, lines 96-100: the record stored for a decoded newUser
NewUserRecord(newUser, cs) ==
    [newUser EXCEPT !.ID = generateUniqueID(cs), !.Complaints = <<>>]

\* The duplicate check left out: every secret code is taken to be free.
SecretCodeNeverInUse(us, newUser) == FALSE

\* registerHandler, line 91
SecretCodeInUse(us, newUser) == UserExists(us, newUser.SecretCode)

\* registerHandler, lines 84-102
registerHandler(us, cs, body) ==
    LET d == Decode(body)
        newUser == DecodeUser(d.val)
        stored == NewUserRecord(newUser, cs)
    IN  IF d.err
        THEN [users |-> us, resp |-> writeError(d.msg, StatusBadRequest)]
        ELSE IF SecretCodeInUse(us, newUser)
        THEN [users |-> us,
              resp |-> writeError("Secret code already in use",
                                  StatusBadRequest)]
        ELSE [users |-> MapPut(us, stored.SecretCode, stored),
              resp |-> Encode(stored)]

\* The id assignment left out: the complaint keeps the id it was sent with.
NewComplaintRecordAsSent(newComplaint, cs) == newComplaint

\* submitComplaintHandler, line 123: the record stored for a decoded
\* newComplaint
NewComplaintRecord(newComplaint, cs) ==
    [newComplaint EXCEPT !.ID = generateUniqueID(cs)]

\* The complaint stored before the user is looked up.
submitStoreUnchecked(us, cs, body) ==
    LET d == Decode(body)
        newComplaint == DecodeComplaint(d.val)
        stored == NewComplaintRecord(newComplaint, cs)
        none == [newComplaint |-> newComplaint, user |-> ZeroUser]
    IN  IF d.err
        THEN [returned |-> TRUE, complaints |-> cs, local |-> none,
              resp |-> writeError(d.msg, StatusBadRequest)]
        ELSE IF ~UserExists(us, newComplaint.SecretCode)
        THEN [returned |-> TRUE,
              complaints |-> MapPut(cs, stored.ID, stored), local |-> none,
              resp |-> writeError("User not found", StatusNotFound)]
        ELSE [returned |-> FALSE,
              complaints |-> MapPut(cs, stored.ID, stored),
              local |-> [newComplaint |-> stored,
                         user |-> UserAt(us, newComplaint.SecretCode)],
              resp |-> NoResponse]

\* submitComplaintHandler, lines 109-125: decode, look the user up, assign
\* the id and store the complaint in the canonical map.  returned is TRUE
\* when the handler left through one of its error returns.
submitStore(us, cs, body) ==
    LET d == Decode(body)
        newComplaint == DecodeComplaint(d.val)
        stored == NewComplaintRecord(newComplaint, cs)
        none == [newComplaint |-> newComplaint, user |-> ZeroUser]
    IN  IF d.err
        THEN [returned |-> TRUE, complaints |-> cs, local |-> none,
              resp |-> writeError(d.msg, StatusBadRequest)]
        ELSE IF ~UserExists(us, newComplaint.SecretCode)
        THEN [returned |-> TRUE, complaints |-> cs, local |-> none,
              resp |-> writeError("User not found", StatusNotFound)]
        ELSE [returned |-> FALSE,
              complaints |-> MapPut(cs, stored.ID, stored),
              local |-> [newComplaint |-> stored,
                         user |-> UserAt(us, newComplaint.SecretCode)],
              resp |-> NoResponse]

\* The new complaint put in front of the list.
PrependComplaint(list, c) == <<c>> \o list

\* submitComplaintHandler, line 127
AppendComplaint(list, c) == Append(list, c)

\* The user changed in the local copy only: line 128 left out.
submitAppendNoWriteBack(us, loc) ==
    [users |-> us, resp |-> WriteHeader(StatusCreated)]

\* submitComplaintHandler, lines 127-130: append the copy to the user read
\* at line 117, store the user back, answer 201.
submitAppend(us, loc) ==
    LET user == [loc.user EXCEPT
                    !.Complaints = AppendComplaint(@, loc.newComplaint)]
    IN  [users |-> MapPut(us, loc.newComplaint.SecretCode, user),
         resp |-> WriteHeader(StatusCreated)]

\* getAllComplaintsForUserHandler, lines 137-154
getAllComplaintsForUserHandler(us, body) ==
    LET d == Decode(body)
        user == DecodeCredentials(d.val)
    IN  IF d.err THEN writeError(d.msg, StatusBadRequest)
        ELSE IF ~UserExists(us, user.SecretCode)
        THEN writeError("User not found", StatusNotFound)
        ELSE Encode(UserAt(us, user.SecretCode).Complaints)

\* The orders in which range may visit the keys of a map.
IterationOrders(m) ==
    {o \in [1..Cardinality(DOMAIN m) -> DOMAIN m] :
        \A i, j \in DOMAIN o : i # j => o[i] # o[j]}

\* getAllComplaintsForAdminHandler, lines 176-179, for one iteration order
RECURSIVE AllComplaints(_, _)
AllComplaints(us, order) ==
    IF order = <<>> THEN <<>>
    ELSE us[Head(order)].Complaints \o AllComplaints(us, Tail(order))

\* Any non-empty secret code taken for the admin token.
IsAdminNonEmpty(code) == code # ""

\* getAllComplaintsForAdminHandler, line 170
IsAdmin(code) == code = "admin"

\* getAllComplaintsForAdminHandler, lines 161-181
getAllComplaintsForAdminHandler(us, body, order) ==
    LET d == Decode(body)
        adminCredentials == DecodeCredentials(d.val)
    IN  IF d.err THEN writeError(d.msg, StatusBadRequest)
        ELSE IF ~IsAdmin(adminCredentials.SecretCode)
        THEN writeError("Unauthorized", StatusUnauthorized)
        ELSE Encode(AllComplaints(us, order))

\* viewComplaintHandler, lines 188-209
viewComplaintHandler(us, cs, body) ==
    LET d == Decode(body)
        complaint == DecodeID(d.val)
        complaintDetails == ComplaintAt(cs, complaint.ID)
    IN  IF d.err THEN writeError(d.msg, StatusBadRequest)
        ELSE IF ~ComplaintExists(cs, complaint.ID)
        THEN writeError("Complaint not found", StatusNotFound)
        ELSE IF ~UserExists(us, complaintDetails.SecretCode)
        THEN writeError("User not found", StatusNotFound)
        ELSE Encode(complaintDetails)

\* The entry replaced by a fresh resolved complaint instead of the stored
\* one with its flag set.
MarkResolvedFresh(cs, id) ==
    MapPut(cs, id, [ZeroComplaint EXCEPT !.ID = id, !.Resolved = TRUE])

\* The flag inverted instead of set.
MarkResolvedToggle(cs, id) ==
    MapPut(cs, id, [ComplaintAt(cs, id) EXCEPT !.Resolved = ~@])

\* resolveComplaintHandler, lines 246-247
MarkResolved(cs, id) ==
    MapPut(cs, id, [ComplaintAt(cs, id) EXCEPT !.Resolved = TRUE])

\* resolveComplaintHandler, lines 216-249: the id is decoded by one
\* decoder, the admin credentials by a second decoder on what the first
\* left of the body.
resolveComplaintHandler(us, cs, body) ==
    LET d1 == Decode(body)
        complaint == DecodeID(d1.val)
        d2 == Decode(d1.rest)
        adminCredentials == DecodeCredentials(d2.val)
    IN  IF d1.err
        THEN [users |-> us, complaints |-> cs,
              resp |-> writeError(d1.msg, StatusBadRequest)]
        ELSE IF d2.err
        THEN [users |-> us, complaints |-> cs,
              resp |-> writeError(d2.msg, StatusBadRequest)]
        ELSE IF ~IsAdmin(adminCredentials.SecretCode)
        THEN [users |-> us, complaints |-> cs,
              resp |-> writeError("Unauthorized", StatusUnauthorized)]
        ELSE IF ~ComplaintExists(cs, complaint.ID)
        THEN [users |-> us, complaints |-> cs,
              resp |-> writeError("Complaint not found", StatusNotFound)]
        ELSE [users |-> us, complaints |-> MarkResolved(cs, complaint.ID),
              resp |-> WriteHeader(StatusNoContent)]

----------------------------------------------------------------------------
(* The request bodies the clients send.                                    *)

One(v) == << <<v>> >>

NoValue == {<<>>, One(Malformed)}

\* ids a client may ask for: those that can exist and one that cannot
IdInputs == {Itoa(i) : i \in 1..(MaxComplaints + 1)}

CredentialBodies ==
    NoValue \cup {One([secretCode |-> c]) : c \in SecretCodes}

PayloadComplaint ==
    [id |-> "7", title |-> "t0", summary |-> "s0", severity |-> 1,
     resolved |-> TRUE]

RegisterBodies ==
    NoValue
    \cup {One([secretCode |-> c, name |-> n, email |-> "e1"]) :
            c \in SecretCodes, n \in Names}
    \cup {One([id |-> "7", secretCode |-> c, name |-> "n1", email |-> "e1",
               complaints |-> <<PayloadComplaint>>]) : c \in SecretCodes}

SubmitBodies ==
    NoValue
    \cup {One([title |-> t, summary |-> "s1", severity |-> 5,
               SecretCode |-> c]) : t \in Titles, c \in SecretCodes}
    \cup {One([id |-> "7", title |-> t, summary |-> "s1", severity |-> 5,
               resolved |-> TRUE, SecretCode |-> c]) :
            t \in Titles, c \in SecretCodes}

ViewBodies == NoValue \cup {One([id |-> i]) : i \in IdInputs}

\* resolveComplaint: one object with both members; the two objects in one
\* chunk; the two objects in two chunks; a second chunk that does not parse.
ResolveBodies ==
    NoValue
    \cup {One([id |-> i, secretCode |-> "admin"]) : i \in IdInputs}
    \cup {<< <<[id |-> "1"], [secretCode |-> "admin"]>> >>}
    \cup {<< <<[id |-> i]>>, <<[secretCode |-> c]>> >> :
            i \in IdInputs, c \in SecretCodes}
    \cup {<< <<[id |-> "1"]>>, <<Malformed>> >>}

----------------------------------------------------------------------------
(* The state machine: each request runs its handler in its own goroutine.  *)

Init ==
    /\ users = <<>>
    /\ complaints = <<>>
    /\ mu = FALSE
    /\ pc = [p \in Procs |-> "idle"]
    /\ op = [p \in Procs |-> "none"]
    /\ req = [p \in Procs |-> <<>>]
    /\ resp = [p \in Procs |-> NoResponse]
    /\ local = <<>>
    /\ submitLog = <<>>

\* Complaints stored, plus submitComplaint requests that have not stored
\* theirs yet.
Pending ==
    Cardinality(DOMAIN complaints)
    + Cardinality({q \in Procs : op[q] = "submitComplaint"
                                 /\ pc[q] \in {"lock", "body"}})

\* net/http dispatches a request to its handler (main.go:35-41).
Start(p, o) ==
    /\ pc[p] = "idle"
    /\ o = "submitComplaint" => Pending < MaxComplaints
    /\ pc' = [pc EXCEPT ![p] = "lock"]
    /\ op' = [op EXCEPT ![p] = o]
    /\ UNCHANGED <<users, complaints, mu, req, resp, local, submitLog>>

\* A Lock that never waits.
CanLockAlways(m) == TRUE

\* mu.Lock() returns only when the mutex is unlocked.
CanLock(m) == m = FALSE

\* mu.Lock(), the first statement of every handler.
Lock(p) ==
    /\ pc[p] = "lock"
    /\ CanLock(mu)
    /\ mu' = TRUE
    /\ pc' = [pc EXCEPT ![p] = "body"]
    /\ UNCHANGED <<users, complaints, op, req, resp, local, submitLog>>

\* The handler of p has decoded body and written response r.
Answered(p, body, r) ==
    /\ req' = [req EXCEPT ![p] = body]
    /\ resp' = [resp EXCEPT ![p] = r]
    /\ pc' = [pc EXCEPT ![p] = "unlock"]

\* The looked-up user stored back under the code: for a code that keys no
\* user this adds the zero User to the map.
LoginStoresLookup(p) ==
    /\ pc[p] = "body" /\ op[p] = "login"
    /\ \E body \in CredentialBodies :
          LET d == Decode(body)
              code == DecodeCredentials(d.val).SecretCode
          IN  /\ users' = IF d.err THEN users
                          ELSE MapPut(users, code, UserAt(users, code))
              /\ Answered(p, body, loginHandler(users, body))
    /\ UNCHANGED <<complaints, mu, op, local, submitLog>>

Login(p) ==
    /\ pc[p] = "body" /\ op[p] = "login"
    /\ \E body \in CredentialBodies :
          Answered(p, body, loginHandler(users, body))
    /\ UNCHANGED <<users, complaints, mu, op, local, submitLog>>

Register(p) ==
    /\ pc[p] = "body" /\ op[p] = "register"
    /\ \E body \in RegisterBodies :
          LET out == registerHandler(users, complaints, body)
          IN  /\ users' = out.users
              /\ Answered(p, body, out.resp)
    /\ UNCHANGED <<complaints, mu, op, local, submitLog>>

SubmitStore(p) ==
    /\ pc[p] = "body" /\ op[p] = "submitComplaint"
    /\ \E body \in SubmitBodies :
          LET out == submitStore(users, complaints, body)
          IN  /\ complaints' = out.complaints
              /\ local' = IF out.returned THEN local
                           ELSE MapPut(local, p, out.local)
              /\ req' = [req EXCEPT ![p] = body]
              /\ resp' = [resp EXCEPT ![p] = out.resp]
              /\ pc' = [pc EXCEPT ![p] =
                           IF out.returned THEN "unlock" ELSE "append"]
    /\ UNCHANGED <<users, mu, op, submitLog>>

SubmitAppend(p) ==
    /\ pc[p] = "append"
    /\ LET out == submitAppend(users, local[p])
       IN  /\ users' = out.users
           /\ resp' = [resp EXCEPT ![p] = out.resp]
           /\ submitLog' = Append(submitLog, local[p].newComplaint)
    /\ local' = [q \in (DOMAIN local) \ {p} |-> local[q]]
    /\ pc' = [pc EXCEPT ![p] = "unlock"]
    /\ UNCHANGED <<complaints, mu, op, req>>

GetAllComplaintsForUser(p) ==
    /\ pc[p] = "body" /\ op[p] = "getAllComplaintsForUser"
    /\ \E body \in CredentialBodies :
          Answered(p, body, getAllComplaintsForUserHandler(users, body))
    /\ UNCHANGED <<users, complaints, mu, op, local, submitLog>>

GetAllComplaintsForAdmin(p) ==
    /\ pc[p] = "body" /\ op[p] = "getAllComplaintsForAdmin"
    /\ \E body \in CredentialBodies, order \in IterationOrders(users) :
          Answered(p, body,
                   getAllComplaintsForAdminHandler(users, body, order))
    /\ UNCHANGED <<users, complaints, mu, op, local, submitLog>>

ViewComplaint(p) ==
    /\ pc[p] = "body" /\ op[p] = "viewComplaint"
    /\ \E body \in ViewBodies :
          Answered(p, body, viewComplaintHandler(users, complaints, body))
    /\ UNCHANGED <<users, complaints, mu, op, local, submitLog>>

ResolveComplaint(p) ==
    /\ pc[p] = "body" /\ op[p] = "resolveComplaint"
    /\ \E body \in ResolveBodies :
          LET out == resolveComplaintHandler(users, complaints, body)
          IN  /\ users' = out.users
              /\ complaints' = out.complaints
              /\ Answered(p, body, out.resp)
    /\ UNCHANGED <<mu, op, local, submitLog>>

\* An Unlock written before each successful return only: a handler that
\* leaves through an error return keeps the mutex.
UnlockOnSuccessOnly(m, r) == m /\ IsError(r)

\* defer mu.Unlock(): the state of the mutex once a handler that wrote
\* response r has returned.
DeferredUnlock(m, r) == FALSE

\* The handler returns: the deferred Unlock runs and the response is sent.
Unlock(p) ==
    /\ pc[p] = "unlock"
    /\ mu' = DeferredUnlock(mu, resp[p])
    /\ pc' = [pc EXCEPT ![p] = "idle"]
    /\ op' = [op EXCEPT ![p] = "none"]
    /\ req' = [req EXCEPT ![p] = <<>>]
    /\ resp' = [resp EXCEPT ![p] = NoResponse]
    /\ UNCHANGED <<users, complaints, local, submitLog>>

\* One step of the handler of p between Lock and Unlock.
Serve(p) ==
    \/ Login(p)
    \/ Register(p)
    \/ SubmitStore(p)
    \/ SubmitAppend(p)
    \/ GetAllComplaintsForUser(p)
    \/ GetAllComplaintsForAdmin(p)
    \/ ViewComplaint(p)
    \/ ResolveComplaint(p)

Next ==
    \E p \in Procs :
        \/ \E o \in Ops : Start(p, o)
        \/ Lock(p)
        \/ Login(p)
        \/ Register(p)
        \/ SubmitStore(p)
        \/ SubmitAppend(p)
        \/ GetAllComplaintsForUser(p)
        \/ GetAllComplaintsForAdmin(p)
        \/ ViewComplaint(p)
        \/ ResolveComplaint(p)
        \/ Unlock(p)

Spec == Init /\ [][Next]_vars

\* The same server with clients that send a few bodies only, enough to take
\* every return the handlers can reach, and a mutex that serves every waiting Lock:
\* sync.Mutex hands the mutex to a waiter that has waited for 1ms
\* (starvation mode), and a running handler runs on to its return.
FairBodies ==
    {<<>>,
     One([secretCode |-> "c1"]),
     One([secretCode |-> "admin"]),
     One([secretCode |-> "c1", name |-> "n1", email |-> "e1"]),
     One([title |-> "t1", summary |-> "s1", severity |-> 5,
          SecretCode |-> "c1"]),
     One([title |-> "t1", summary |-> "s1", severity |-> 5,
          SecretCode |-> "admin"]),
     One([id |-> "1"]),
     One([id |-> "1", secretCode |-> "admin"]),
     << <<[id |-> "1"]>>, <<[secretCode |-> "admin"]>> >>,
     << <<[id |-> "1"]>>, <<[secretCode |-> "c1"]>> >>}

\* The body the handler of p decodes is one of FairBodies.
Sent(p) == req'[p] \in FairBodies

FairNext ==
    \E p \in Procs :
        \/ \E o \in Ops : Start(p, o)
        \/ Lock(p)
        \/ Login(p) /\ Sent(p)
        \/ Register(p) /\ Sent(p)
        \/ SubmitStore(p) /\ Sent(p)
        \/ SubmitAppend(p)
        \/ GetAllComplaintsForUser(p) /\ Sent(p)
        \/ GetAllComplaintsForAdmin(p) /\ Sent(p)
        \/ ViewComplaint(p) /\ Sent(p)
        \/ ResolveComplaint(p) /\ Sent(p)
        \/ Unlock(p)

FairSpec ==
    /\ Init
    /\ [][FairNext]_vars
    /\ \A p \in Procs :
          /\ SF_vars(Lock(p))
          /\ WF_vars((Serve(p) /\ Sent(p)) \/ Unlock(p))

----------------------------------------------------------------------------
(* Properties.                                                             *)

\* The handler of p, running o, has written its response and is about to
\* return; until it does, it still holds the mutex.
Returning(p, o) == pc[p] = "unlock" /\ op[p] = o

\* The handler of p, running o, writes its response in this step.
Answers(p, o) == op[p] = o /\ pc[p] # "unlock" /\ pc'[p] = "unlock"

\* The object the first Decode of the handler took from body.
FirstObject(body) == Decode(body).val

Decodes(body) == ~Decode(body).err

\* C1: with only user "c1" registered and its one complaint stored, a
\* resolveComplaint whose body is one JSON object with that complaint's id
\* and secretCode "admin" answers 204, and viewComplaint of the id then
\* returns the complaint with resolved = TRUE.
C1_ResolveOneObject ==
    \A p \in Procs : \A i \in DOMAIN complaints :
        ( /\ Returning(p, "resolveComplaint")
          /\ DOMAIN users = {"c1"}
          /\ DOMAIN complaints = {i}
          /\ complaints[i].SecretCode = "c1"
          /\ req[p] = One([id |-> i, secretCode |-> "admin"]) )
        => /\ resp[p].status = StatusNoContent
           /\ LET v == viewComplaintHandler(users, complaints,
                                            One([id |-> i]))
              IN  v.status = StatusOK /\ v.body.Resolved = TRUE

\* C2: when a submitComplaint has answered 201, whatever its payload
\* carried, viewComplaint of the id it assigned returns the complaint with
\* resolved = FALSE.
C2_SubmittedIsUnresolved ==
    \A p \in Procs :
        (Returning(p, "submitComplaint") /\ resp[p].status = StatusCreated)
        => LET newID == submitLog[Len(submitLog)].ID
               v == viewComplaintHandler(users, complaints,
                                         One([id |-> newID]))
           IN  v.status = StatusOK /\ v.body.Resolved = FALSE

\* C3: a register whose secretCode already keys a user answers 400
\* "Secret code already in use" and leaves the users map, hence the
\* existing user's id, name, email and complaints, as it was.
C3_DuplicateSecretCode ==
    [][\A p \in Procs :
        ( /\ Answers(p, "register")
          /\ Decodes(req'[p])
          /\ DecodeUser(FirstObject(req'[p])).SecretCode \in DOMAIN users )
        => /\ resp'[p] = [status |-> StatusBadRequest,
                          body |-> [error |-> "Secret code already in use"]]
           /\ users' = users
           /\ complaints' = complaints]_vars

\* C3 happens: a register for a taken code, carrying another name than the
\* stored one, was refused.
C3_Witness ==
    \E p \in Procs :
        /\ Returning(p, "register")
        /\ Decodes(req[p])
        /\ LET u == DecodeUser(FirstObject(req[p]))
           IN  /\ u.SecretCode \in DOMAIN users
               /\ users[u.SecretCode].Name # u.Name
               /\ users[u.SecretCode].Complaints # <<>>
        /\ resp[p].status = StatusBadRequest

\* C4: a request that ends in an error (400, 401, 404) leaves both maps
\* as they were when its handler took the mutex; a submitComplaint whose
\* secret code keys no user answers 404 "User not found" and changes
\* neither map.
C4_NoPartialSuccess ==
    [][\A p \in Procs :
        /\ (pc'[p] = "unlock" /\ pc[p] # "unlock" /\ IsError(resp'[p]))
           => /\ pc[p] = "body"
              /\ users' = users
              /\ complaints' = complaints
        /\ ( /\ Answers(p, "submitComplaint")
             /\ Decodes(req'[p])
             /\ DecodeComplaint(FirstObject(req'[p])).SecretCode
                   \notin DOMAIN users )
           => /\ resp'[p] = [status |-> StatusNotFound,
                             body |-> [error |-> "User not found"]]
              /\ users' = users
              /\ complaints' = complaints]_vars

\* C4 happens: a submitComplaint for an unregistered code was refused
\* while the maps held a user and a complaint.
C4_Witness ==
    \E p \in Procs :
        /\ Returning(p, "submitComplaint")
        /\ resp[p].status = StatusNotFound
        /\ users # <<>>
        /\ complaints # <<>>

\* The elements of a user's embedded list.
Embedded(u) == {u.Complaints[k] : k \in DOMAIN u.Complaints}

\* C5: a resolveComplaint that answers 204 for id sets Resolved of
\* complaints[id] and changes nothing else: the users map and the other
\* complaints are as before, and getAllComplaintsForUser of the owner
\* returns what it returned before, the copy of id as it was submitted.
C5_ResolveFrame ==
    [][\A p \in Procs :
        (Answers(p, "resolveComplaint")
         /\ resp'[p].status = StatusNoContent)
        => LET id == DecodeID(FirstObject(req'[p])).ID
               owner == One([secretCode |-> complaints[id].SecretCode])
               list == getAllComplaintsForUserHandler(users', owner)
           IN  /\ id \in DOMAIN complaints
               /\ complaints' = [complaints EXCEPT ![id].Resolved = TRUE]
               /\ users' = users
               /\ list = getAllComplaintsForUserHandler(users, owner)
               /\ list.status = StatusOK
               /\ \E k \in DOMAIN list.body, j \in DOMAIN submitLog :
                     /\ list.body[k].ID = id
                     /\ submitLog[j] = list.body[k]]_vars

\* C5 happens: a resolveComplaint succeeded on a complaint submitted
\* unresolved, whose embedded copy now differs from the canonical entry,
\* with another complaint stored beside it.
C5_Witness ==
    \E p \in Procs :
        /\ Returning(p, "resolveComplaint")
        /\ resp[p].status = StatusNoContent
        /\ LET id == DecodeID(FirstObject(req[p])).ID
           IN  /\ complaints[id].Resolved
               /\ [complaints[id] EXCEPT !.Resolved = FALSE]
                     \in Embedded(users[complaints[id].SecretCode])
        /\ Cardinality(DOMAIN complaints) > 1

\* p is between its Lock and its Unlock.
InSection(p) == pc[p] \in {"body", "append", "unlock"}

\* Every canonical complaint is in the embedded list of its owner and
\* every embedded complaint is in the canonical map.
PairsWhole ==
    /\ \A id \in DOMAIN complaints :
          \E c \in Embedded(UserAt(users, complaints[id].SecretCode)) :
              c.ID = id
    /\ \A code \in DOMAIN users :
          \A c \in Embedded(users[code]) : c.ID \in DOMAIN complaints

\* C6: at most one handler is between Lock and Unlock, and while a reading
\* handler is there no complaint is in one of the two maps only.
C6_Atomicity ==
    /\ Cardinality({p \in Procs : InSection(p)}) <= 1
    /\ \A p \in Procs :
          (InSection(p) /\ op[p] \in Readers) => PairsWhole

\* C6 happens: a submitComplaint has stored the canonical entry and not yet
\* the embedded copy, and a reading request waits for the mutex.
C6_Witness ==
    \E p, q \in Procs :
        /\ pc[p] = "append"
        /\ ~PairsWhole
        /\ pc[q] = "lock"
        /\ op[q] \in Readers

\* C7: every handler that is waiting for or holding the mutex returns,
\* whatever it answers, and the mutex is locked only while a handler is
\* between its Lock and its Unlock.
C7_LockReleased ==
    /\ \A p \in Procs : (pc[p] # "idle") ~> (pc[p] = "idle")
    /\ [](mu => \E p \in Procs : InSection(p))

\* C7 happens: a handler is about to return through an error path while
\* another request waits for the mutex.
C7_Witness ==
    \E p, q \in Procs :
        /\ pc[p] = "unlock"
        /\ IsError(resp[p])
        /\ pc[q] = "lock"

\* The complaints of the submits that answered 201 for code, in the order
\* in which they were answered.
SubmittedUnder(code) ==
    LET Mine(c) == c.SecretCode = code IN SelectSeq(submitLog, Mine)

\* C8: a login whose secret code keys no user answers 404 "User not found";
\* one whose code keys a user answers 200 with the stored record, whose
\* complaint list is exactly the complaints submitted under the code, in
\* the order of submission.
C8_Login ==
    \A p \in Procs :
        (Returning(p, "login") /\ Decodes(req[p]))
        => LET code == DecodeCredentials(FirstObject(req[p])).SecretCode
           IN  IF code \notin DOMAIN users
               THEN resp[p] = [status |-> StatusNotFound,
                               body |-> [error |-> "User not found"]]
               ELSE /\ resp[p].status = StatusOK
                    /\ resp[p].body = users[code]
                    /\ resp[p].body.SecretCode = code
                    /\ resp[p].body.Complaints = SubmittedUnder(code)

\* C8 happens: a login returned a user with two complaints of different
\* ids while the other user holds none.
C8_Witness ==
    \E p \in Procs :
        /\ Returning(p, "login")
        /\ resp[p].status = StatusOK
        /\ Len(resp[p].body.Complaints) = 2
        /\ resp[p].body.Complaints[1] # resp[p].body.Complaints[2]

\* The number of places of sequence list that hold x.
Count(list, x) == Cardinality({k \in DOMAIN list : list[k] = x})

\* The sum of f over the finite set S.
RECURSIVE Sum(_, _)
Sum(f, S) ==
    IF S = {} THEN 0
    ELSE LET x == CHOOSE y \in S : TRUE IN f[x] + Sum(f, S \ {x})

\* C9: getAllComplaintsForAdmin with secret code "admin" answers 200 with
\* a list that holds every complaint as many times as the users' embedded
\* lists hold it together, and nothing else; with any other code it
\* answers 401 "Unauthorized", and no complaints.
C9_AdminList ==
    \A p \in Procs :
        (Returning(p, "getAllComplaintsForAdmin") /\ Decodes(req[p]))
        => LET code == DecodeCredentials(FirstObject(req[p])).SecretCode
               all == UNION {Embedded(users[u]) : u \in DOMAIN users}
           IN  IF code = "admin"
               THEN /\ resp[p].status = StatusOK
                    /\ Len(resp[p].body)
                         = Sum([u \in DOMAIN users |->
                                   Len(users[u].Complaints)], DOMAIN users)
                    /\ \A x \in all :
                          Count(resp[p].body, x)
                            = Sum([u \in DOMAIN users |->
                                      Count(users[u].Complaints, x)],
                                  DOMAIN users)
               ELSE resp[p] = [status |-> StatusUnauthorized,
                               body |-> [error |-> "Unauthorized"]]

\* C9 happens: the admin list was returned while two users each hold a
\* complaint.
C9_Witness ==
    \E p \in Procs :
        /\ Returning(p, "getAllComplaintsForAdmin")
        /\ resp[p].status = StatusOK
        /\ Len(resp[p].body) = 2
        /\ \E u, v \in DOMAIN users :
              /\ u # v
              /\ users[u].Complaints # <<>>
              /\ users[v].Complaints # <<>>

\* C10: register and submitComplaint give the new record the id
\* len(complaints)+1 in decimal, len taken when the handler runs; and once
\* a complaint "1" is stored, viewComplaint of "1" returns that complaint,
\* also when a user has the id "1".
C10_IdDerivation ==
    [][\A p \in Procs :
        LET next == ToString(Cardinality(DOMAIN complaints) + 1) IN
        /\ (Answers(p, "register") /\ resp'[p].status = StatusOK)
           => LET code == DecodeUser(FirstObject(req'[p])).SecretCode
              IN  /\ users'[code].ID = next
                  /\ resp'[p].body.ID = next
        /\ (op[p] = "submitComplaint" /\ pc[p] = "body"
            /\ pc'[p] = "append")
           => /\ DOMAIN complaints' = (DOMAIN complaints) \cup {next}
              /\ next \notin DOMAIN complaints
              /\ complaints'[next].ID = next
        /\ ("1" \in DOMAIN complaints')
           => viewComplaintHandler(users', complaints', One([id |-> "1"]))
                = [status |-> StatusOK, body |-> complaints'["1"]]]_vars

\* C10 happens: a user with id "1" and the complaint with id "1" are both
\* stored, and a viewComplaint of "1" has returned the complaint.
C10_Witness ==
    \E p \in Procs :
        /\ Returning(p, "viewComplaint")
        /\ req[p] = One([id |-> "1"])
        /\ "1" \in DOMAIN complaints
        /\ resp[p] = [status |-> StatusOK, body |-> complaints["1"]]
        /\ \E u \in DOMAIN users : users[u].ID = "1"
        /\ resp[p].body \notin {users[u] : u \in DOMAIN users}

\* C11: no user is stored under the admin token: "admin" is never a key of
\* the users map.
C11_AdminNotAUser == "admin" \notin DOMAIN users

\* C12: two users stored under different secret codes have different ids.
C12_UserIdsDiffer ==
    \A u, v \in DOMAIN users : u # v => users[u].ID # users[v].ID

\* C13: the secret code of every canonical complaint keys a user, and a
\* viewComplaint never answers "User not found": for an id in the
\* canonical map it answers 200 with the canonical complaint, for any
\* other id 404 "Complaint not found".
C13_OwnerExists ==
    /\ \A id \in DOMAIN complaints :
          complaints[id].SecretCode \in DOMAIN users
    /\ \A p \in Procs :
          (Returning(p, "viewComplaint") /\ Decodes(req[p]))
          => LET id == DecodeID(FirstObject(req[p])).ID
             IN  IF id \in DOMAIN complaints
                 THEN resp[p] = [status |-> StatusOK,
                                 body |-> complaints[id]]
                 ELSE resp[p] = [status |-> StatusNotFound,
                                 body |-> [error |-> "Complaint not found"]]

\* C13 happens: a viewComplaint returned the second complaint, owned by
\* another user than the first.
C13_Witness ==
    \E p \in Procs :
        /\ Returning(p, "viewComplaint")
        /\ req[p] = One([id |-> "2"])
        /\ resp[p].status = StatusOK
        /\ "1" \in DOMAIN complaints
        /\ complaints["1"].SecretCode # resp[p].body.SecretCode

\* C14: a complaint stored under an id stays stored under it with the same
\* id, title, summary, severity and secret code; its Resolved never goes
\* from TRUE to FALSE, and goes from FALSE to TRUE only in the step in
\* which a resolveComplaint for that id answers 204.
C14_Lifecycle ==
    [][\A id \in DOMAIN complaints :
        /\ id \in DOMAIN complaints'
        /\ [complaints'[id] EXCEPT !.Resolved = complaints[id].Resolved]
             = complaints[id]
        /\ complaints[id].Resolved => complaints'[id].Resolved
        /\ (complaints'[id].Resolved # complaints[id].Resolved)
           => \E p \in Procs :
                 /\ Answers(p, "resolveComplaint")
                 /\ resp'[p].status = StatusNoContent
                 /\ DecodeID(FirstObject(req'[p])).ID = id]_vars

\* C14 happens: a resolveComplaint has answered 204 for a complaint that
\* was submitted unresolved, and both stored complaints are now resolved.
C14_Witness ==
    \E p \in Procs : \E j \in DOMAIN submitLog :
        /\ Returning(p, "resolveComplaint")
        /\ resp[p].status = StatusNoContent
        /\ submitLog[j].ID = DecodeID(FirstObject(req[p])).ID
        /\ ~submitLog[j].Resolved
        /\ complaints[submitLog[j].ID].Resolved
        /\ \A id \in DOMAIN complaints : complaints[id].Resolved
        /\ Cardinality(DOMAIN complaints) = 2

\* No submitComplaint is between its two map writes.
NoSubmitUnderWay == \A p \in Procs : pc[p] # "append"

\* The places (user, index) of the embedded lists that hold a complaint
\* with this id.
PlacesOf(id) ==
    UNION {{<<u, k>> : k \in {j \in DOMAIN users[u].Complaints :
                                   users[u].Complaints[j].ID = id}} :
           u \in DOMAIN users}

\* C15: a submitComplaint that answers 201 has stored the complaint under
\* the new id, leaving the earlier complaints as they were, and appended
\* an equal copy as the last element of the owner's list, leaving the
\* other users as they were; and whenever no submitComplaint is between
\* its two writes, every canonical id is in exactly one place of the
\* embedded lists, in the list of the user its secret code keys, and the
\* copy there equals the canonical entry but for Resolved.
C15_SubmitStoresPair ==
    /\ [][\A p \in Procs :
            /\ (op[p] = "submitComplaint" /\ pc[p] = "body"
                /\ pc'[p] = "append")
               => /\ users' = users
                  /\ \A id \in DOMAIN complaints :
                        id \in DOMAIN complaints'
                        /\ complaints'[id] = complaints[id]
                  /\ Cardinality(DOMAIN complaints')
                       = Cardinality(DOMAIN complaints) + 1
            /\ (pc[p] = "append" /\ pc'[p] = "unlock")
               => LET owner ==
                          DecodeComplaint(FirstObject(req[p])).SecretCode
                      list == users'[owner].Complaints
                      copy == list[Len(list)]
                  IN  /\ resp'[p].status = StatusCreated
                      /\ complaints' = complaints
                      /\ DOMAIN users' = DOMAIN users
                      /\ list # <<>>
                      /\ \A u \in (DOMAIN users) \ {owner} :
                            users'[u] = users[u]
                      /\ users'[owner] =
                           [users[owner] EXCEPT
                               !.Complaints = Append(@, copy)]
                      /\ copy.ID \in DOMAIN complaints
                      /\ copy = complaints[copy.ID]
                      /\ \A u \in DOMAIN users :
                            \A c \in Embedded(users[u]) : c.ID # copy.ID
      ]_vars
    /\ [](NoSubmitUnderWay
          => \A id \in DOMAIN complaints :
                LET places == PlacesOf(id) IN
                /\ Cardinality(places) = 1
                /\ \A pl \in places :
                      /\ pl[1] = complaints[id].SecretCode
                      /\ [users[pl[1]].Complaints[pl[2]] EXCEPT
                             !.Resolved = complaints[id].Resolved]
                           = complaints[id])

\* C15 happens: a submitComplaint has answered 201 for the second
\* complaint of a user, the other user stored beside it.
C15_Witness ==
    \E p \in Procs :
        /\ Returning(p, "submitComplaint")
        /\ resp[p].status = StatusCreated
        /\ Cardinality(DOMAIN users) = 2
        /\ \E u \in DOMAIN users : Len(users[u].Complaints) = 2

\* C16: the keys of the canonical map are the decimal strings of 1..n for
\* its n entries and every entry's ID is its key; a submitComplaint that
\* stores a complaint adds the one key n+1 and overwrites no entry.
C16_DenseIds ==
    /\ [](LET n == Cardinality(DOMAIN complaints)
          IN  /\ DOMAIN complaints = {ToString(i) : i \in 1..n}
              /\ \A k \in DOMAIN complaints : complaints[k].ID = k)
    /\ [][\A p \in Procs :
            (op[p] = "submitComplaint" /\ pc[p] = "body"
             /\ pc'[p] \in {"append", "unlock"} /\ ~IsError(resp'[p]))
            => LET n == Cardinality(DOMAIN complaints)
               IN  /\ (DOMAIN complaints') \ (DOMAIN complaints)
                         = {ToString(n + 1)}
                   /\ \A k \in DOMAIN complaints :
                         k \in DOMAIN complaints'
                         /\ complaints'[k] = complaints[k]]_vars

\* C16 happens: two complaints are stored, the second sent with an id of
\* its own.
C16_Witness ==
    /\ DOMAIN complaints = {"1", "2"}
    /\ \E p \in Procs :
          /\ Returning(p, "submitComplaint")
          /\ resp[p].status = StatusCreated
          /\ Decodes(req[p])
          /\ DecodeComplaint(FirstObject(req[p])).ID = "7"

\* C17: a register that answers 200 stores and returns the same record:
\* secret code, name and email as sent, the generated id and an empty
\* complaint list, whatever id and complaints were sent; it adds that one
\* user and changes no other user and no complaint.
C17_RegisterStores ==
    [][\A p \in Procs :
        (Answers(p, "register") /\ resp'[p].status = StatusOK)
        => LET sent == FirstObject(req'[p])
               code == sent.secretCode
           IN  /\ code \notin DOMAIN users
               /\ DOMAIN users' = (DOMAIN users) \cup {code}
               /\ \A u \in DOMAIN users : users'[u] = users[u]
               /\ complaints' = complaints
               /\ resp'[p].body = users'[code]
               /\ users'[code] =
                    [ID |-> ToString(Cardinality(DOMAIN complaints) + 1),
                     SecretCode |-> code,
                     Name |-> sent.name,
                     Email |-> sent.email,
                     Complaints |-> <<>>]]_vars

\* C17 happens: a register sent with an id and a complaint list of its own
\* has answered 200 while another user and a complaint were stored.
C17_Witness ==
    \E p \in Procs :
        /\ Returning(p, "register")
        /\ resp[p].status = StatusOK
        /\ Decodes(req[p])
        /\ DecodeUser(FirstObject(req[p])).ID = "7"
        /\ DecodeUser(FirstObject(req[p])).Complaints # <<>>
        /\ Cardinality(DOMAIN users) = 2
        /\ complaints # <<>>

\* C18: no step of a login, getAllComplaintsForUser,
\* getAllComplaintsForAdmin or viewComplaint request, from its dispatch to
\* its return and whatever it answers, changes the users map or the
\* complaints map.
C18_ReadersReadOnly ==
    [][\A p \in Procs :
        ((op[p] \in Readers \/ op'[p] \in Readers) /\ pc'[p] # pc[p])
        => /\ users' = users
           /\ complaints' = complaints]_vars

\* C18 happens: a login has answered 404 "User not found" while a user
\* and a complaint were stored.
C18_Witness ==
    \E p \in Procs :
        /\ Returning(p, "login")
        /\ resp[p].status = StatusNotFound
        /\ users # <<>>
        /\ complaints # <<>>

====
